---- MODULE Spec2Model ----
(***************************************************************************)
(* Model of FSKB_ArticlesDownload_Code.py: the FreshServiceKBExtractor     *)
(* API client, the filename sanitizer, the traversal in main and the       *)
(* per-article download loop.                                              *)
(*                                                                         *)
(* Strings are sequences of one-character strings.  A Python value that    *)
(* may be None is a sequence of length at most one (<<>> is None).  The    *)
(* outcome of a call is a record [kind, val]: kind "return" carries the    *)
(* returned list, "none" is a returned None, "raise" is an exception that  *)
(* leaves the call.                                                        *)
(***************************************************************************)
EXTENDS Integers, Sequences, FiniteSets, TLC

VARIABLES
    pc,          \* position of the running routine
    caller,      \* "main", "get_articles", "download" or "sanitize": the routine under analysis
    last_call,   \* the last API client call: its operation, the response and its outcome
    listings,    \* main: the get_articles calls of the current pass of `for category`: <<scope, id>>
    requests,    \* get_articles: the pages requested by the current call, in order
    exported,    \* main: the exporters run so far, in order, each with how it ended
    categories,  \* main: categories
    ci,          \* main: index of the category of the for loop
    folders,     \* main: folders
    fi,          \* main: index of the folder of the for loop
    scope,       \* get_articles: [folder_id, category_id] (<<>> is None)
    page,        \* get_articles: page
    articles,    \* get_articles: articles
    all_articles,\* main: all_articles, the stub list handed to the download loop
    next_id,     \* id the server gives the next stub it lists
    idx,         \* download_articles_and_attachments: index of the stub of the for loop
    detailed,    \* download_articles_and_attachments: detailed_article (<<>> is None)
    ai,          \* download_articles_and_attachments: index of the attachment of the inner loop
    att_ok,      \* download_articles_and_attachments: attachment_success_count
    counters,    \* total_articles, successful_articles, total_attachments, successful_attachments
    processed,   \* the stubs whose pass of the loop has ended, in order: <<id, how it ended>>,
                 \* "ok", "absent", "write_error" or "exception" (the except of line 517)
    disk,        \* directories and files written: [path, kind, label]
    content,     \* the last call of download_article_content (<<>> before the first): the
                 \* article, what create_pdf_document did, the write that raised, the result
    summary,     \* value returned by download_articles_and_attachments (<<>> before)
    options,     \* download_attachments, save_pdf, save_html, save_text
    filename,    \* sanitize_filename: its argument
    runs         \* sanitize_filename: results of the successive applications

vars == <<pc, caller, last_call, listings, requests, exported, categories, ci, folders, fi,
          scope, page, articles,
          all_articles, next_id, idx, detailed, ai, att_ok, counters, processed, disk,
          content, summary, options, filename, runs>>

travVars == <<categories, ci, folders, fi>>
histVars == <<last_call, listings, requests, exported>>
pageVars == <<scope, page, articles>>
dlVars   == <<idx, detailed, ai, att_ok, counters, processed, disk, content, summary, options>>
sanVars  == <<filename, runs>>

-----------------------------------------------------------------------------
(* Bounds of the model *)

MaxCats == 2       \* categories the server lists at most
MaxFolders == 2    \* folders the server lists for a category at most
MaxStubs == 2      \* stubs collected by a run of main / handed to the download loop at most
MaxAtt == 2        \* attachments of an article detail at most
MaxPages == 3      \* full pages served to one get_articles call at most
MaxTail == 2       \* characters after the padding of a sanitize_filename argument at most

(* Program constants *)

PerPage == 100          \* params 'per_page': 100 and `len(batch) < 100`
MaxFilenameLen == 250   \* filename[:250]

-----------------------------------------------------------------------------
(* Python values *)

None == <<>>
Some(x) == <<x>>
Truthy(opt) == opt # None /\ opt[1] # 0    \* `if folder_id:` on an int or None

Return(v) == [kind |-> "return", val |-> v]
ReturnNone == [kind |-> "none", val |-> <<>>]
Raise == [kind |-> "raise", val |-> <<>>]

Min(a, b) == IF a < b THEN a ELSE b

RECURSIVE SeqSum(_)
SeqSum(s) == IF s = <<>> THEN 0 ELSE Head(s) + SeqSum(Tail(s))

(* An HTTP exchange: either the transport fails (requests raises a          *)
(* RequestException) or a status code arrives.                              *)
StatusCodes == {200, 403, 500}
Responses == [transport_error : {FALSE}, status : StatusCodes]
                 \cup [transport_error : {TRUE}, status : {0}]

-----------------------------------------------------------------------------
(* sanitize_filename *)

Whitespace == {" ", "\t", "\n", "\r"}
invalid_chars == <<"<", ">", ":", "\"", "/", "\\", "\n", "?", "*">>
Alphabet == {"a", "_", " ", "<", ">", ":", "\"", "/", "\\", "\n", "?", "*"}

(* str.strip(): drop the leading and the trailing whitespace *)
RECURSIVE lstrip(_)
lstrip(s) == IF s # <<>> /\ Head(s) \in Whitespace THEN lstrip(Tail(s)) ELSE s

RECURSIVE rstrip(_)
rstrip(s) ==
    IF s # <<>> /\ s[Len(s)] \in Whitespace THEN rstrip(SubSeq(s, 1, Len(s) - 1)) ELSE s

strip(s) == rstrip(lstrip(s))

replace(s, old, new) == [i \in 1..Len(s) |-> IF s[i] = old THEN new ELSE s[i]]

RECURSIVE replace_each(_, _)
replace_each(s, chars) ==
    IF chars = <<>> THEN s ELSE replace_each(replace(s, Head(chars), "_"), Tail(chars))

no_truncate(s) == s

(* filename[:250] *)
truncate(s) == SubSeq(s, 1, Min(Len(s), MaxFilenameLen))

sanitize_filename(name) == truncate(replace_each(strip(name), invalid_chars))

-----------------------------------------------------------------------------
(* The knowledge base behind the API.  What the server holds is fixed by   *)
(* the id; what varies from run to run is how much of it each listing      *)
(* returns and which exchanges fail.                                       *)

TitlePool == << <<"a">>, <<" ", "a", "/", "b">>, <<>>, <<"a", ":", "*", " ">> >>
StatusPool == << Some(1), Some(2), Some(3), None >>
NamePool == << <<"f">>, <<"f", "?", "g">> >>

TitleOf(id) == TitlePool[((id - 1) % Len(TitlePool)) + 1]

Stub(id) == [id |-> id, title |-> TitleOf(id), annotation |-> None]

Attachment(article_id, k) ==
    [id |-> article_id * 10 + k, name |-> NamePool[((k - 1) % Len(NamePool)) + 1]]

Detail(id) ==
    [id |-> id,
     title |-> TitleOf(id),
     status |-> StatusPool[((id - 1) % Len(StatusPool)) + 1],
     has_description |-> (id % 3 # 2),
     attachments |-> [k \in 1..((id - 1) % (MaxAtt + 1)) |-> Attachment(id, k)]]

Batch(first, n) == [i \in 1..n |-> Stub(first + i - 1)]

-----------------------------------------------------------------------------
(* API client *)

validate_any_status(resp) == ~resp.transport_error

validate_connection(resp) == ~resp.transport_error /\ resp.status = 200

(* get_categories and get_folders: no try, and no else branch after         *)
(* `elif response.status_code == 403`, so any other status falls off the    *)
(* end of the function and returns None.                                    *)
get_categories(resp, body) ==
    IF resp.transport_error THEN Raise
    ELSE IF resp.status = 200 THEN Return(body)
    ELSE IF resp.status = 403 THEN Return(<<>>)
    ELSE ReturnNone

get_folders(resp, body) ==
    IF resp.transport_error THEN Raise
    ELSE IF resp.status = 200 THEN Return(body)
    ELSE IF resp.status = 403 THEN Return(<<>>)
    ELSE ReturnNone

get_article_details(resp, detail) ==
    IF resp.transport_error THEN ReturnNone
    ELSE IF resp.status = 200 THEN Return(Some(detail))
    ELSE ReturnNone

(* get_articles: the parameters of one request *)
scope_kind(sc) ==
    IF Truthy(sc.folder_id) THEN "folder"
    ELSE IF Truthy(sc.category_id) THEN "category"
    ELSE "all"

scope_id(sc) ==
    IF Truthy(sc.folder_id) THEN sc.folder_id[1]
    ELSE IF Truthy(sc.category_id) THEN sc.category_id[1]
    ELSE 0

(* `if len(batch) < 100: break` *)
short_page_or_equal(batch) == Len(batch) <= PerPage

short_page(batch) == Len(batch) < PerPage

(* what get_articles holds in `articles` after a failed page *)
drop_on_failure(gathered) == <<>>

keep_on_failure(gathered) == gathered

Call(op, resp, outcome) ==
    [op |-> op, transport_error |-> resp.transport_error, status |-> resp.status,
     kind |-> outcome.kind, empty |-> (outcome.val = <<>>)]

-----------------------------------------------------------------------------
(* main: the traversal *)

CategoryIds(n) == [i \in 1..n |-> i]
FolderIds(cat_id, n) == [j \in 1..n |-> cat_id * 10 + j]

FolderScope(folder_id) == [folder_id |-> Some(folder_id), category_id |-> None]
CategoryScope(cat_id) == [folder_id |-> None, category_id |-> Some(cat_id)]

(* `if folders:` at line 567 *)
never_folder_branch(fs) == FALSE

folder_branch(fs) == fs # <<>>

ValidateConnection ==
    /\ pc = "validate"
    /\ \E resp \in Responses :
        /\ last_call' = Call("validate_connection", resp,
                              IF validate_connection(resp) THEN Return(<<TRUE>>)
                              ELSE Return(<<>>))
        /\ pc' = IF validate_connection(resp) THEN "get_categories" ELSE "halted"
    /\ UNCHANGED <<caller, listings, requests, exported, travVars, pageVars, all_articles,
                   next_id, dlVars, sanVars>>

(* lines 552-557: the call and the table built from its result; iterating  *)
(* over None raises TypeError, which nothing in main catches.              *)
GetCategories ==
    /\ pc = "get_categories"
    /\ \E resp \in Responses, n \in 0..MaxCats :
        LET out == get_categories(resp, CategoryIds(n)) IN
        /\ last_call' = Call("get_categories", resp, out)
        /\ IF out.kind = "return"
           THEN /\ categories' = out.val
                /\ ci' = 1
                /\ pc' = "for_category"
           ELSE /\ UNCHANGED <<categories, ci>>
                /\ pc' = "crashed"
    /\ UNCHANGED <<caller, listings, requests, exported, folders, fi, pageVars, all_articles,
                   next_id, dlVars, sanVars>>

(* lines 108-109: a call of get_articles by main, after the calls `before` *)
(* of the same pass of `for category`.                                     *)
EnterGetArticles(sc, before) ==
    /\ scope' = sc
    /\ page' = 1
    /\ articles' = <<>>
    /\ requests' = <<>>
    /\ listings' = Append(before, <<scope_kind(sc), scope_id(sc)>>)
    /\ pc' = "get_articles"

(* lines 560-570 and 577: one pass of `for category in categories` up to   *)
(* the first get_articles call of the category.                            *)
GetFolders ==
    /\ pc = "for_category"
    /\ ci <= Len(categories)
    /\ \E resp \in Responses, n \in 0..MaxFolders :
        LET cat_id == categories[ci]
            out == get_folders(resp, FolderIds(cat_id, n))
        IN
        /\ last_call' = Call("get_folders", resp, out)
        /\ IF out.kind = "return"
           THEN /\ folders' = out.val
                /\ fi' = 1
                /\ EnterGetArticles(IF folder_branch(out.val)
                                    THEN FolderScope(out.val[1])
                                    ELSE CategoryScope(cat_id), <<>>)
           ELSE /\ UNCHANGED <<folders, fi, pageVars, listings, requests>>
                /\ pc' = "crashed"
    /\ UNCHANGED <<caller, exported, categories, ci, all_articles, next_id, dlVars, sanVars>>

(* all_articles.extend(articles), lines 575 and 582 *)
extend(list, more) == list \o more

(* The return of get_articles to its caller: main extends all_articles and *)
(* goes on with the next folder, or with the next category.                *)
ReturnToCaller(result) ==
    IF caller = "get_articles"
    THEN /\ pc' = "returned"
         /\ articles' = result
         /\ requests' = Append(requests, page)
         /\ UNCHANGED <<scope, page, travVars, all_articles, listings>>
    ELSE /\ all_articles' = extend(all_articles, result)
         /\ IF folder_branch(folders) /\ fi < Len(folders)
            THEN /\ fi' = fi + 1
                 /\ EnterGetArticles(FolderScope(folders[fi + 1]), listings)
                 /\ UNCHANGED <<categories, ci, folders>>
            ELSE /\ ci' = ci + 1
                 /\ pc' = "for_category"
                 /\ articles' = result
                 /\ requests' = Append(requests, page)
                 /\ UNCHANGED <<categories, folders, fi, scope, page, listings>>

(* lines 110-130: one pass of the `while True` loop of get_articles *)
GetArticlesPage(sizes) ==
    /\ pc = "get_articles"
    /\ \E resp \in Responses, n \in sizes :
        LET batch == Batch(next_id, n) IN
        IF resp.transport_error
        THEN /\ pc' = "crashed"
             /\ requests' = Append(requests, page)
             /\ last_call' = Call("get_articles", resp, Raise)
             /\ UNCHANGED <<travVars, pageVars, all_articles, next_id, listings>>
        ELSE IF resp.status = 200
        THEN /\ next_id' = next_id + n
             /\ IF short_page(batch)
                THEN /\ last_call' = Call("get_articles", resp, Return(articles \o batch))
                     /\ ReturnToCaller(articles \o batch)
                ELSE /\ articles' = articles \o batch
                     /\ page' = page + 1
                     /\ requests' = Append(requests, page)
                     /\ UNCHANGED <<pc, last_call, scope, travVars, all_articles, listings>>
        ELSE /\ last_call' = Call("get_articles", resp, Return(keep_on_failure(articles)))
             /\ ReturnToCaller(keep_on_failure(articles))
             /\ UNCHANGED next_id
    /\ UNCHANGED <<caller, exported, dlVars, sanVars>>

MainSizes == 0..(MaxStubs - Len(all_articles) - Len(articles))

PagingSizes == {0, 1, PerPage - 1} \cup (IF page <= MaxPages THEN {PerPage} ELSE {})

(* lines 584 and 611-612: the branch after the traversal *)
EndTraversal ==
    /\ pc = "for_category"
    /\ ci > Len(categories)
    /\ pc' = IF all_articles # <<>> THEN "export_to_json" ELSE "done"
    /\ UNCHANGED <<caller, histVars, travVars, pageVars, all_articles, next_id,
                   dlVars, sanVars>>

(* lines 587-590: the exporters, called one after another with no try; an  *)
(* exporter that raises (the open, the dump, a missing spreadsheet engine) *)
(* ends main.  generate_summary_report only counts in memory.              *)
Exporter(here, next) ==
    /\ pc = here
    /\ \E raises \in BOOLEAN :
        /\ exported' = Append(exported, <<here, IF raises THEN "raise" ELSE "ok">>)
        /\ pc' = IF raises THEN "crashed" ELSE next
    /\ UNCHANGED <<caller, last_call, listings, requests, travVars, pageVars, all_articles,
                   next_id, dlVars, sanVars>>

ExportToJson == Exporter("export_to_json", "export_to_csv")
ExportToCsvThenDownload == Exporter("export_to_csv", "download")

ExportToCsv == Exporter("export_to_csv", "export_to_excel")
ExportToExcel == Exporter("export_to_excel", "generate_summary_report")

GenerateSummaryReport ==
    /\ pc = "generate_summary_report"
    /\ exported' = Append(exported, <<"generate_summary_report", "ok">>)
    /\ pc' = "download"
    /\ UNCHANGED <<caller, last_call, listings, requests, travVars, pageVars, all_articles,
                   next_id, dlVars, sanVars>>

-----------------------------------------------------------------------------
(* The per-article layout on disk *)

IdStr(id) == <<ToString(id)>>

(* create_article_folder: folder_name = f"{article_id}_{article_title}" *)
folder_name(article) == IdStr(article.id) \o <<"_">> \o sanitize_filename(article.title)

(* line 502-503: filename = f"{att_id}_{att_name}" *)
attachment_filename(att) == IdStr(att.id) \o <<"_">> \o sanitize_filename(att.name)

Dir(id, path) == [article |-> id, path |-> path, kind |-> "dir", label |-> ""]
File(id, path, kind, label) == [article |-> id, path |-> path, kind |-> kind, label |-> label]

(* create_article_folder: the two makedirs calls; either may raise OSError *)
MakedirsOutcomes == {"ok", "first_raises", "second_raises"}

article_dirs(article, outcome) ==
    LET folder == folder_name(article) IN
    IF outcome = "first_raises" THEN {}
    ELSE IF outcome = "second_raises" THEN {Dir(article.id, <<folder>>)}
    ELSE {Dir(article.id, <<folder>>), Dir(article.id, <<folder, <<"attachments">> >>)}

(* lines 314-315: status_map.get(article.get('status'), "Unknown") *)
status_label(status) ==
    IF status = Some(1) THEN "Published"
    ELSE IF status = Some(2) THEN "Draft"
    ELSE "Unknown"

(* line 399: "Published" if article.get("status") == 1 else "Draft" *)
metadata_status(status) == IF status = Some(1) THEN "Published" ELSE "Draft"

(* create_pdf_document, lines 371-392: what happens to the renderer is      *)
(* "unavailable" (the import of line 38 failed), "raises" (anything raised *)
(* inside the try) or "written".  The method catches every exception and   *)
(* returns a boolean.                                                      *)
Renderings == {"unavailable", "raises", "written"}

create_pdf_document_raising(rendering) == IF rendering = "written" THEN "True" ELSE "raise"

create_pdf_document(rendering) == IF rendering = "written" THEN "True" ELSE "False"

(* line 427: `if save_pdf and html_content` *)
pdf_attempted(opts, d) == opts.save_pdf /\ d.has_description

(* line 434: `if save_html and html_content` *)
html_attempted(opts, d) == opts.save_html /\ d.has_description

(* line 442: `if save_text` *)
text_needs_body(opts, d) == opts.save_text /\ d.has_description

text_attempted(opts, d) == opts.save_text

(* download_article_content, lines 417-461.  folder_path is the folder     *)
(* create_article_folder returned, resp is the detail exchange,            *)
(* rendering what happens to the renderer if create_pdf_document is        *)
(* called, failing the write that raises ("none", "html", "text" or        *)
(* "metadata").  Returns (ok, detailed_article), the files left in         *)
(* folder_path, why it failed: "absent" (no detail) or "write_error" (the  *)
(* except of line 459), what create_pdf_document returned ("not_called"    *)
(* when the PDF was not due), the write that raised and formats_saved as   *)
(* logged at line 457.                                                     *)
WriteFailures == {"none", "html", "text", "metadata"}

download_article_content(article, folder_path, resp, rendering, failing, opts) ==
    LET id == article.id
        folder == folder_path
        got == get_article_details(resp, Detail(id))
        failed(files, why, pdf_call, write) ==
            [ok |-> FALSE, detail |-> None, files |-> files, why |-> why, pdf |-> pdf_call,
             raised |-> write, formats_saved |-> <<>>]
    IN
    IF got.kind # "return"
    THEN failed({}, "absent", "not_called", "none")
    ELSE
        LET d == got.val[1]
            pdf_call == IF pdf_attempted(opts, d) THEN create_pdf_document(rendering)
                        ELSE "not_called"
            pdf == IF pdf_call = "True"
                   THEN {File(id, <<folder, IdStr(id) \o <<"_article.pdf">> >>, "pdf",
                              status_label(d.status))}
                   ELSE {}
            html_due == html_attempted(opts, d)
            html == IF html_due
                    THEN {File(id, <<folder, IdStr(id) \o <<"_article.html">> >>, "html",
                               status_label(d.status))}
                    ELSE {}
            text_due == text_attempted(opts, d)
            text == IF text_due
                    THEN {File(id, <<folder, IdStr(id) \o <<"_article.txt">> >>, "text", "")}
                    ELSE {}
            meta == {File(id, <<folder, IdStr(id) \o <<"_metadata.json">> >>, "metadata",
                          metadata_status(d.status))}
        IN
        IF pdf_call = "raise"
        THEN failed({}, "write_error", pdf_call, "none")
        ELSE IF html_due /\ failing = "html"
        THEN failed(pdf, "write_error", pdf_call, "html")
        ELSE IF text_due /\ failing = "text"
        THEN failed(pdf \cup html, "write_error", pdf_call, "text")
        ELSE IF failing = "metadata"
        THEN failed(pdf \cup html \cup text, "write_error", pdf_call, "metadata")
        ELSE [ok |-> TRUE, detail |-> Some(d), files |-> pdf \cup html \cup text \cup meta,
              why |-> "ok", pdf |-> pdf_call, raised |-> "none",
              formats_saved |-> (IF pdf_call = "True" THEN <<"PDF">> ELSE <<>>)
                                \o (IF html_due THEN <<"HTML">> ELSE <<>>)
                                \o (IF text_due THEN <<"TEXT">> ELSE <<>>)
                                \o <<"JSON">>]

-----------------------------------------------------------------------------
(* download_articles_and_attachments *)

(* lines 467-472 *)
StartDownload ==
    /\ pc = "download"
    /\ counters' = [total_articles |-> Len(all_articles), successful_articles |-> 0,
                    total_attachments |-> 0, successful_attachments |-> 0]
    /\ idx' = 1
    /\ pc' = "for_article"
    /\ UNCHANGED <<caller, histVars, travVars, pageVars, all_articles, next_id,
                   detailed, ai, att_ok, processed, disk, content, summary, options, sanVars>>

(* lines 512-515 *)
Annotation(detail, downloaded, folder) ==
    [has_attachments |-> Len(detail.attachments) > 0,
     attachment_count |-> Len(detail.attachments),
     attachments_downloaded |-> downloaded,
     local_folder |-> folder]

annotate_first(stubs, i, detail, downloaded) ==
    [stubs EXCEPT ![1].annotation =
        Some(Annotation(detail, downloaded, folder_name(stubs[i])))]

Annotate(stubs, i, detail, downloaded) ==
    [stubs EXCEPT ![i].annotation =
        Some(Annotation(detail, downloaded, folder_name(stubs[i])))]

(* lines 517-519 and the end of a pass: how the loop goes on after stub i  *)
abort_loop(n, i) == n + 1

next_index(n, i) == i + 1

(* lines 474-498 and 512-515: one pass of `for index, article` up to the   *)
(* attachment loop, or to its end when there is none.  An input the pass   *)
(* does not get to (the detail exchange after a failed makedirs, the       *)
(* renderer and the writes without a detail) is not enumerated.            *)
ProcessStub ==
    /\ pc = "for_article"
    /\ idx <= Len(all_articles)
    /\ LET article == all_articles[idx] IN
       \E folder_path \in {folder_name(article)}, mk \in MakedirsOutcomes :
       \E dirs \in {article_dirs(article, mk)} :
       \E resp \in IF mk = "ok" THEN Responses
                   ELSE {[transport_error |-> FALSE, status |-> 200]} :
       \E rendering \in IF mk = "ok" /\ get_article_details(resp, <<>>).kind = "return"
                        THEN Renderings ELSE {"written"} :
       \E failing \in IF mk = "ok" /\ get_article_details(resp, <<>>).kind = "return"
                      THEN WriteFailures ELSE {"none"} :
       \E res \in {download_article_content(article, folder_path, resp, rendering, failing,
                                             options)} :
        IF mk # "ok"
        THEN /\ disk' = disk \cup dirs
             /\ processed' = Append(processed, <<article.id, "exception">>)
             /\ idx' = next_index(Len(all_articles), idx)
             /\ UNCHANGED <<pc, last_call, all_articles, detailed, ai, att_ok, counters, content>>
        ELSE
            /\ disk' = disk \cup dirs \cup res.files
            /\ content' = Some([article |-> article.id, ok |-> res.ok, pdf |-> res.pdf,
                                raised |-> res.raised, formats_saved |-> res.formats_saved])
            /\ last_call' = Call("get_article_details", resp,
                                  get_article_details(resp, Detail(article.id)))
            /\ IF ~res.ok
               THEN /\ processed' = Append(processed, <<article.id, res.why>>)
                    /\ idx' = next_index(Len(all_articles), idx)
                    /\ UNCHANGED <<pc, all_articles, detailed, ai, att_ok, counters>>
               ELSE
                    /\ counters' = [counters EXCEPT !.successful_articles = @ + 1]
                    /\ IF ~options.download_attachments
                       THEN /\ processed' = Append(processed, <<article.id, "ok">>)
                            /\ idx' = next_index(Len(all_articles), idx)
                            /\ UNCHANGED <<pc, all_articles, detailed, ai, att_ok>>
                       ELSE IF res.detail[1].attachments # <<>>
                       THEN /\ detailed' = res.detail
                            /\ ai' = 1
                            /\ att_ok' = 0
                            /\ pc' = "for_attachment"
                            /\ UNCHANGED <<processed, idx, all_articles>>
                       ELSE /\ all_articles' = Annotate(all_articles, idx, res.detail[1], 0)
                            /\ processed' = Append(processed, <<article.id, "ok">>)
                            /\ idx' = next_index(Len(all_articles), idx)
                            /\ UNCHANGED <<pc, detailed, ai, att_ok>>
    /\ UNCHANGED <<caller, listings, requests, exported, travVars, pageVars, next_id,
                   summary, options, sanVars>>

(* download_attachment, lines 159-179: True with the file written, False   *)
(* (no URL, or a RequestException, which it catches), or an OSError from   *)
(* makedirs/open/write, which it does not catch.                           *)
DownloadOutcomes == {"true", "false", "raises"}

(* lines 500-508: one pass of `for att in attachments` *)
DownloadAttachment ==
    /\ pc = "for_attachment"
    /\ \E outcome \in DownloadOutcomes,
          folder_path \in {folder_name(all_articles[idx])},
          att_filename \in {attachment_filename(detailed[1].attachments[ai])} :
        LET article == all_articles[idx]
            d == detailed[1]
            path == <<folder_path, <<"attachments">>, att_filename>>
            won == IF outcome = "true" THEN 1 ELSE 0
        IN
        /\ counters' = [counters EXCEPT !.total_attachments = @ + 1,
                                        !.successful_attachments = @ + won]
        /\ disk' = IF outcome = "true"
                   THEN disk \cup {File(article.id, path, "attachment", "")}
                   ELSE disk
        /\ IF outcome = "raises"
           THEN /\ processed' = Append(processed, <<article.id, "exception">>)
                /\ idx' = next_index(Len(all_articles), idx)
                /\ pc' = "for_article"
                /\ UNCHANGED <<all_articles, ai, att_ok>>
           ELSE IF ai < Len(d.attachments)
           THEN /\ ai' = ai + 1
                /\ att_ok' = att_ok + won
                /\ UNCHANGED <<pc, all_articles, idx, processed>>
           ELSE /\ all_articles' = Annotate(all_articles, idx, d, att_ok + won)
                /\ att_ok' = att_ok + won
                /\ processed' = Append(processed, <<article.id, "ok">>)
                /\ idx' = next_index(Len(all_articles), idx)
                /\ pc' = "for_article"
                /\ UNCHANGED ai
    /\ UNCHANGED <<caller, histVars, travVars, pageVars, next_id, detailed, content, summary,
                   options, sanVars>>

(* lines 531-537 *)
ReturnSummary ==
    /\ pc = "for_article"
    /\ idx > Len(all_articles)
    /\ summary' = Some(counters)
    /\ pc' = "done"
    /\ UNCHANGED <<caller, histVars, travVars, pageVars, all_articles, next_id,
                   idx, detailed, ai, att_ok, counters, processed, disk, content, options,
                   sanVars>>

-----------------------------------------------------------------------------
(* sanitize_filename applied to a name, applied again to its own result,   *)
(* and the two places that build a path from it.                           *)

Pad(n) == [i \in 1..n |-> "a"]

RECURSIVE Strings(_)
Strings(n) ==
    IF n = 0 THEN {<<>>}
    ELSE LET shorter == Strings(n - 1) IN
         shorter \cup {Append(s, c) : s \in {t \in shorter : Len(t) = n - 1}, c \in Alphabet}

PadLens == {0, MaxFilenameLen - 2, MaxFilenameLen - 1, MaxFilenameLen}

Filenames == {Pad(n) \o tail : n \in PadLens, tail \in Strings(MaxTail)}

Sanitize ==
    /\ pc = "sanitize"
    /\ Len(runs) < 2
    /\ runs' = Append(runs, sanitize_filename(IF runs = <<>> THEN filename ELSE runs[Len(runs)]))
    /\ UNCHANGED <<pc, caller, histVars, travVars, pageVars, all_articles, next_id,
                   dlVars, filename>>

(* create_article_folder, lines 256-264, for an article titled `filename` *)
CreateArticleFolder ==
    /\ pc = "sanitize"
    /\ Len(runs) = 2
    /\ \E mk \in MakedirsOutcomes :
        disk' = disk \cup article_dirs([id |-> 1, title |-> filename], mk)
    /\ pc' = "attachment_path"
    /\ UNCHANGED <<caller, histVars, travVars, pageVars, all_articles, next_id,
                   idx, detailed, ai, att_ok, counters, processed, content, summary, options,
                   sanVars>>

(* lines 501-504, for an attachment named `filename` *)
AttachmentPath ==
    /\ pc = "attachment_path"
    /\ LET article == [id |-> 1, title |-> filename]
           att == [id |-> 11, name |-> filename]
       IN disk' = disk \cup {File(1, <<folder_name(article), <<"attachments">>,
                                       attachment_filename(att)>>, "attachment", "")}
    /\ pc' = "done"
    /\ UNCHANGED <<caller, histVars, travVars, pageVars, all_articles, next_id,
                   idx, detailed, ai, att_ok, counters, processed, content, summary, options,
                   sanVars>>

-----------------------------------------------------------------------------
(* Specifications *)

MainOptions ==
    [download_attachments |-> TRUE, save_pdf |-> TRUE, save_html |-> TRUE, save_text |-> TRUE]

Idle(routine, at) ==
    /\ caller = routine
    /\ pc = at
    /\ last_call = Call("", [transport_error |-> FALSE, status |-> 0], Return(<<>>))
    /\ listings = <<>>
    /\ requests = <<>>
    /\ exported = <<>>
    /\ categories = <<>>
    /\ ci = 1
    /\ folders = <<>>
    /\ fi = 1
    /\ page = 1
    /\ articles = <<>>
    /\ idx = 1
    /\ detailed = None
    /\ ai = 1
    /\ att_ok = 0
    /\ counters = [total_articles |-> 0, successful_articles |-> 0,
                   total_attachments |-> 0, successful_attachments |-> 0]
    /\ processed = <<>>
    /\ disk = {}
    /\ content = None
    /\ summary = None
    /\ runs = <<>>

(* A run of main *)
Init ==
    /\ Idle("main", "validate")
    /\ options = MainOptions
    /\ scope = [folder_id |-> None, category_id |-> None]
    /\ all_articles = <<>>
    /\ next_id = 1
    /\ filename = <<>>

Next ==
    \/ ValidateConnection
    \/ GetCategories
    \/ GetFolders
    \/ GetArticlesPage(MainSizes)
    \/ EndTraversal
    \/ ExportToJson
    \/ ExportToCsv
    \/ ExportToExcel
    \/ GenerateSummaryReport
    \/ StartDownload
    \/ ProcessStub
    \/ DownloadAttachment
    \/ ReturnSummary

Spec == Init /\ [][Next]_vars

(* One call of get_articles, for every combination of its two arguments *)
InitGetArticles ==
    /\ Idle("get_articles", "get_articles")
    /\ options = MainOptions
    /\ scope \in [folder_id : {None, Some(0), Some(7)}, category_id : {None, Some(0), Some(3)}]
    /\ all_articles = <<>>
    /\ next_id = 1
    /\ filename = <<>>

NextGetArticles == GetArticlesPage(PagingSizes)

SpecGetArticles == InitGetArticles /\ [][NextGetArticles]_vars

(* One call of download_articles_and_attachments on a list of stubs *)
InitDownload ==
    /\ Idle("download", "download")
    /\ options = MainOptions
    /\ scope = [folder_id |-> None, category_id |-> None]
    /\ \E first \in 1..Len(StatusPool), n \in 0..MaxStubs : all_articles = Batch(first, n)
    /\ next_id = 1
    /\ filename = <<>>

NextDownload ==
    \/ StartDownload
    \/ ProcessStub
    \/ DownloadAttachment
    \/ ReturnSummary

SpecDownload == InitDownload /\ [][NextDownload]_vars

(* One call of download_articles_and_attachments for every combination of *)
(* its download_attachments, save_pdf, save_html and save_text arguments   *)
InitFormats ==
    /\ Idle("download", "download")
    /\ options \in [download_attachments : BOOLEAN, save_pdf : BOOLEAN, save_html : BOOLEAN,
                    save_text : BOOLEAN]
    /\ scope = [folder_id |-> None, category_id |-> None]
    /\ \E first \in 1..Len(StatusPool), n \in 0..MaxStubs : all_articles = Batch(first, n)
    /\ next_id = 1
    /\ filename = <<>>

SpecFormats == InitFormats /\ [][NextDownload]_vars

(* sanitize_filename on every name of Filenames *)
InitSanitize ==
    /\ Idle("sanitize", "sanitize")
    /\ options = MainOptions
    /\ scope = [folder_id |-> None, category_id |-> None]
    /\ all_articles = <<>>
    /\ next_id = 1
    /\ filename \in Filenames

NextSanitize ==
    \/ Sanitize
    \/ CreateArticleFolder
    \/ AttachmentPath

SpecSanitize == InitSanitize /\ [][NextSanitize]_vars

-----------------------------------------------------------------------------
(* Properties *)

ClientOperations == {"get_categories", "get_folders", "get_articles", "get_article_details"}

(* C1: none of get_categories, get_folders, get_articles and               *)
(* get_article_details raises to its caller; on every outcome other than   *)
(* status 200 a listing operation returns an empty list and the detail     *)
(* operation returns None, so main goes on with the traversal.             *)
C1_NoOperationRaises ==
    last_call.op \in ClientOperations =>
        /\ last_call.kind # "raise"
        /\ exported = <<>> => pc # "crashed"
        /\ (last_call.transport_error \/ last_call.status # 200) =>
               IF last_call.op = "get_article_details"
               THEN last_call.kind = "none"
               ELSE last_call.kind = "return" /\ last_call.empty

(* C2: get_articles requests pages 1, 2, 3, ... in order, one request per  *)
(* page; when it returns after a page with status 200, that page k is the  *)
(* first one shorter than the page size, the result is everything the      *)
(* server listed on pages 1..k, in order, and page k+1 was not requested.  *)
C2_PaginationTermination ==
    /\ \A i \in 1..Len(requests) : requests[i] = i
    /\ pc = "get_articles" => Len(requests) = page - 1 /\ Len(articles) = (page - 1) * PerPage
    /\ (pc = "returned" /\ last_call.status = 200) =>
        LET k == Len(requests) IN
        /\ k = page
        /\ (k - 1) * PerPage <= Len(articles)
        /\ Len(articles) < k * PerPage
        /\ articles = Batch(1, next_id - 1)

C2_Witness ==
    /\ caller = "get_articles"
    /\ pc = "returned"
    /\ last_call.status = 200
    /\ requests = <<1, 2, 3>>
    /\ Len(articles) = 2 * PerPage + 1

(* C3: when page k of get_articles ends with a status other than 200 after *)
(* k-1 full pages, the call returns at once: page k was requested once, no *)
(* later page was requested, and the result is the items of pages 1..k-1.  *)
C3_FailedPageKeepsPartial ==
    (pc = "returned" /\ ~last_call.transport_error /\ last_call.status # 200) =>
        LET k == Len(requests) IN
        /\ requests = [i \in 1..k |-> i]
        /\ k = page
        /\ last_call.kind = "return"
        /\ articles = Batch(1, (k - 1) * PerPage)

C3_Witness ==
    /\ caller = "get_articles"
    /\ pc = "returned"
    /\ last_call.status = 403
    /\ requests = <<1, 2, 3>>
    /\ Len(articles) = 2 * PerPage

(* The stubs whose detail fetch and writes all succeeded: the metadata     *)
(* record, written last, is on disk.                                       *)
Materialized(id) == \E f \in disk : f.article = id /\ f.kind = "metadata"

(* C4: the summary returned by download_articles_and_attachments counts    *)
(* every stub in total_articles, the stubs whose detail fetch and writes   *)
(* succeeded in successful_articles, all the attachments of the details of *)
(* those stubs in total_attachments, and the attachments whose download    *)
(* returned True in successful_attachments.                                *)
C4_RunSummaryCounters ==
    (pc = "done" /\ summary # None) =>
        LET r == summary[1]
            found == [i \in 1..Len(all_articles) |->
                         IF Materialized(all_articles[i].id)
                         THEN Len(Detail(all_articles[i].id).attachments)
                         ELSE 0]
        IN
        /\ r.total_articles = Len(all_articles)
        /\ r.successful_articles =
               Cardinality({i \in 1..Len(all_articles) : Materialized(all_articles[i].id)})
        /\ r.total_attachments = SeqSum(found)
        /\ r.successful_attachments = Cardinality({f \in disk : f.kind = "attachment"})

(* C5: an article whose detail fetch returned None has nothing on disk, no *)
(* folder and no file; every article that was materialized has its folder. *)
C5_AbsentDetailLeavesNothing ==
    /\ \A i \in 1..Len(processed) :
           processed[i][2] = "absent" => \A f \in disk : f.article # processed[i][1]
    /\ \A i \in 1..Len(processed) :
           processed[i][2] = "ok" =>
               \E f \in disk : f.article = processed[i][1] /\ f.kind = "dir"

(* C6: a stub that fails (no detail, makedirs or a write raising, an       *)
(* exception in its attachment loop) does not end the loop: the stubs are  *)
(* processed once each in list order, no counter is reset or lowered, a    *)
(* failed pass adds nothing to the success counters, and the loop runs on  *)
(* (a pass in the attachment loop always has an attachment to go on with)  *)
(* until the summary with the counters is returned.                        *)
C6_LoopInvariant ==
    /\ pc \in {"download", "for_article", "for_attachment", "done"}
    /\ pc \in {"for_article", "for_attachment"} => Len(processed) = idx - 1
    /\ Len(processed) <= Len(all_articles)
    /\ \A i \in 1..Len(processed) : processed[i][1] = all_articles[i].id
    /\ pc = "done" => Len(processed) = Len(all_articles) /\ summary = Some(counters)
    /\ pc = "for_attachment" =>
           /\ idx <= Len(all_articles)
           /\ detailed # None
           /\ ai <= Len(detailed[1].attachments)

C6_CountersKept ==
    pc \in {"for_article", "for_attachment"} =>
        /\ counters'.total_articles = counters.total_articles
        /\ counters'.successful_articles >= counters.successful_articles
        /\ counters'.total_attachments >= counters.total_attachments
        /\ counters'.successful_attachments >= counters.successful_attachments
        /\ (Len(processed') > Len(processed) /\ processed'[Len(processed')][2] # "ok") =>
               /\ counters'.successful_articles = counters.successful_articles
               /\ counters'.successful_attachments = counters.successful_attachments

C6_FailureDoesNotAbort == [][C6_LoopInvariant' /\ C6_CountersKept]_vars

C6_Witness ==
    /\ caller = "download"
    /\ pc = "done"
    /\ Len(processed) = 2
    /\ processed[1][2] = "exception"
    /\ processed[2][2] = "ok"
    /\ summary # None
    /\ summary[1].total_attachments = 1
    /\ summary[1].successful_articles = 1

(* C7: the status label written into the document shell (HTML and PDF) and *)
(* into the metadata record is "Published" for status 1, "Draft" for       *)
(* status 2 and "Unknown" for any other or missing status.                 *)
C7_StatusLabels ==
    \A f \in disk :
        f.kind \in {"html", "pdf", "metadata"} =>
            LET st == Detail(f.article).status IN
            f.label = IF st = <<1>> THEN "Published"
                      ELSE IF st = <<2>> THEN "Draft"
                      ELSE "Unknown"

(* C8: sanitize_filename applied to its own result returns it unchanged.  *)
C8_SanitizeIdempotent == Len(runs) = 2 => runs[2] = runs[1]

Reserved == {"<", ">", ":", "\"", "/", "\\", "\n", "?", "*"}

Clean(s) == Len(s) <= 250 /\ \A i \in 1..Len(s) : s[i] \notin Reserved

(* C9: a result of sanitize_filename has at most 250 characters and none   *)
(* of the reserved ones, and the folder of an article and the file of an   *)
(* attachment are named {id}_{sanitized name}.                             *)
C9_SanitizedNames ==
    /\ \A i \in 1..Len(runs) : Clean(runs[i])
    /\ \A f \in disk :
        /\ f.path[1] = <<"1", "_">> \o runs[1]
        /\ f.kind = "attachment" => f.path[3] = <<"11", "_">> \o runs[1]

C9_Witness ==
    /\ caller = "sanitize"
    /\ pc = "done"
    /\ Len(filename) = 251
    /\ filename[250] = "/"
    /\ runs[1][250] = "_"
    /\ \E f \in disk : f.kind = "attachment"
    /\ \E f \in disk : f.kind = "dir"

ExpectedListings(cat_id, fs, upto) ==
    IF fs # <<>>
    THEN [j \in 1..upto |-> <<"folder", fs[j]>>]
    ELSE << <<"category", cat_id>> >>

(* C10: in each pass of main's category loop, a non-empty folder listing   *)
(* leads to exactly one folder-scoped get_articles call per folder, in     *)
(* order, and to no category-scoped one; an empty folder listing leads to  *)
(* exactly one category-scoped call and no folder-scoped one; all_articles *)
(* holds the listed stubs in the order they were listed.                   *)
C10_BranchSelection ==
    /\ (caller = "main" /\ pc = "get_articles") =>
        /\ listings = ExpectedListings(categories[ci], folders, fi)
        /\ all_articles \o articles = Batch(1, next_id - 1)
    /\ (caller = "main" /\ pc = "for_category") =>
        /\ all_articles = Batch(1, next_id - 1)
        /\ ci > 1 => listings = ExpectedListings(categories[ci - 1], folders, Len(folders))

C10_Witness ==
    /\ caller = "main"
    /\ pc = "for_category"
    /\ ci = 3
    /\ folders = <<>>
    /\ listings = << <<"category", 2>> >>
    /\ Len(all_articles) = 2
    /\ all_articles[2].id = 2

(* C11: the bulk exporters are independent: when one of export_to_json,    *)
(* export_to_csv and export_to_excel fails, main does not end there; the   *)
(* other exporters still run and the download loop is still entered, so a  *)
(* run that reaches the download has run all four.                         *)
C11_ExportersIndependent ==
    (\E i \in 1..Len(exported) : exported[i][2] = "raise") =>
        /\ pc # "crashed"
        /\ pc \in {"download", "for_article", "for_attachment", "done"} => Len(exported) = 4

C12_HaltedClean ==
    pc = "halted" =>
        /\ last_call.op = "validate_connection"
        /\ categories = <<>> /\ folders = <<>>
        /\ listings = <<>> /\ requests = <<>>
        /\ all_articles = <<>> /\ next_id = 1
        /\ exported = <<>>
        /\ disk = {} /\ processed = <<>> /\ content = None /\ summary = None

(* C12: validate_connection failing (status 403, any other status than     *)
(* 200, or a transport error) halts main: every such outcome leads to the  *)
(* halted position and only such an outcome does, no step is taken from    *)
(* there, and in it no category, folder, listing or detail request was     *)
(* issued, nothing was exported and nothing was written.                   *)
C12_ValidationFailureHalts ==
    [][/\ pc # "halted"
       /\ C12_HaltedClean'
       /\ pc = "validate" =>
            /\ last_call'.op = "validate_connection"
            /\ pc' = "halted" <=> (last_call'.transport_error \/ last_call'.status # 200)]_vars

C12_Witness ==
    /\ caller = "main"
    /\ pc = "halted"
    /\ ~last_call.transport_error
    /\ last_call.status = 500

Has(id, kind) == \E f \in disk : f.article = id /\ f.kind = kind

SuccessfulArticles == Cardinality({i \in 1..Len(all_articles) : Materialized(all_articles[i].id)})

(* C13: for the article of the last download_article_content call: a .txt  *)
(* file is on disk only with save_text, an .html or .pdf file only with    *)
(* its flag and a non-empty body, and create_pdf_document is called        *)
(* exactly when save_pdf is set and the body is non-empty; when the detail *)
(* was fetched and no write raised, the .txt file is there exactly when    *)
(* save_text is set (body or not), the .html file exactly when save_html   *)
(* is set and the body is non-empty, the metadata file is there for every  *)
(* flag combination, and the call returned (True, detail): the article is  *)
(* counted and its detail is the one the attachment loop works on.         *)
C13_FormatSelection ==
    content # None =>
        LET c == content[1]
            id == c.article
            body == Detail(id).has_description
            fetched == last_call.kind = "return"
        IN
        /\ last_call.op = "get_article_details"
        /\ Has(id, "text") => options.save_text
        /\ Has(id, "html") => options.save_html /\ body
        /\ Has(id, "pdf") => options.save_pdf /\ body
        /\ c.pdf # "not_called" <=> (fetched /\ options.save_pdf /\ body)
        /\ c.ok => fetched /\ c.raised = "none"
        /\ (fetched /\ c.raised = "none") =>
            /\ c.ok
            /\ Has(id, "text") <=> options.save_text
            /\ Has(id, "html") <=> (options.save_html /\ body)
            /\ Has(id, "metadata")
            /\ c.formats_saved[Len(c.formats_saved)] = "JSON"
            /\ counters.successful_articles = SuccessfulArticles
            /\ pc = "for_attachment" => detailed = Some(Detail(id))

C13_Witness ==
    /\ caller = "download"
    /\ pc = "done"
    /\ content # None
    /\ content[1].ok
    /\ ~Detail(content[1].article).has_description
    /\ options.save_text /\ options.save_html /\ options.save_pdf
    /\ content[1].formats_saved = <<"TEXT", "JSON">>
    /\ Has(content[1].article, "text")
    /\ ~Has(content[1].article, "html")
    /\ Has(content[1].article, "metadata")

(* C14: when create_pdf_document is called and does not write the PDF      *)
(* (the renderer is unavailable or raises), it returns False and nothing   *)
(* propagates: unless a file write raises, download_article_content        *)
(* returns True with formats_saved lacking PDF, the .html file written if  *)
(* save_html is set, the .txt file if save_text is set and the metadata    *)
(* file written, and the article is counted in successful_articles.        *)
C14_PdfBestEffort ==
    (content # None /\ content[1].pdf \notin {"not_called", "True"}) =>
        LET c == content[1]
            id == c.article
        IN
        /\ c.pdf = "False"
        /\ c.raised = "none" =>
            /\ c.ok
            /\ \A k \in 1..Len(c.formats_saved) : c.formats_saved[k] # "PDF"
            /\ Has(id, "html") <=> options.save_html
            /\ Has(id, "text") <=> options.save_text
            /\ Has(id, "metadata")
            /\ counters.successful_articles = SuccessfulArticles
            /\ counters.successful_articles >= 1

C14_Witness ==
    /\ caller = "download"
    /\ pc = "done"
    /\ content # None
    /\ content[1].pdf = "False"
    /\ content[1].ok
    /\ content[1].formats_saved = <<"HTML", "TEXT", "JSON">>
    /\ ~Has(content[1].article, "pdf")
    /\ Has(content[1].article, "html")
    /\ summary # None
    /\ summary[1].successful_articles = Len(all_articles)

ExporterOrder ==
    <<"export_to_json", "export_to_csv", "export_to_excel", "generate_summary_report">>

ListingPhase == {"validate", "get_categories", "for_category", "get_articles"}

DownloadPhase == {"download", "for_article", "for_attachment"}

Materializing ==
    \/ pc \in DownloadPhase
    \/ last_call.op = "get_article_details"
    \/ disk # {} \/ processed # <<>> \/ content # None \/ summary # None

(* C15: the phases of main follow one another: once an exporter has run,   *)
(* the traversal is over and all_articles holds every stub that was        *)
(* listed; the exporters run in the order JSON, CSV, spreadsheet, summary, *)
(* none twice; a detail fetch or a per-article write happens only after    *)
(* all four have run; the stubs are then processed one at a time in list   *)
(* order, everything on disk belonging to a stub at or before the current  *)
(* one; with an empty all_articles nothing is exported or materialized.    *)
C15_PhaseOrdering ==
    /\ [i \in 1..Len(exported) |-> exported[i][1]] = SubSeq(ExporterOrder, 1, Len(exported))
    /\ exported # <<>> =>
        /\ pc \notin ListingPhase
        /\ ci > Len(categories)
        /\ all_articles # <<>>
        /\ Len(all_articles) = next_id - 1
        /\ \A i \in 1..Len(all_articles) : all_articles[i].id = i
    /\ Materializing =>
        /\ Len(exported) = Len(ExporterOrder)
        /\ \A i \in 1..Len(exported) : exported[i][2] = "ok"
    /\ pc \in {"for_article", "for_attachment"} => Len(processed) = idx - 1
    /\ \A i \in 1..Len(processed) : processed[i][1] = all_articles[i].id
    /\ \A f \in disk :
        \E i \in 1..Min(idx, Len(all_articles)) : all_articles[i].id = f.article
    /\ all_articles = <<>> => exported = <<>> /\ ~Materializing

C15_Witness ==
    /\ caller = "main"
    /\ pc = "done"
    /\ Len(exported) = 4
    /\ Len(processed) = 2
    /\ summary # None
    /\ \E f \in disk : f.article = 2 /\ f.kind = "metadata"
    /\ \E f \in disk : f.article = 1 /\ f.kind = "metadata"

(* C16: a stub of the list differs from what it was before the call by its *)
(* annotation only; a stub is annotated only once its pass of the loop has *)
(* ended with its content materialized, a stub whose pass failed is not    *)
(* annotated; an annotation has attachments_downloaded <= attachment_count,*)
(* has_attachments exactly when attachment_count > 0, attachment_count the *)
(* number of attachments of the detail, and local_folder the folder        *)
(* {id}_{sanitized title} of that same stub.                               *)
C16_AnnotationFrame ==
    \A i \in 1..Len(all_articles) :
        LET stub == all_articles[i] IN
        /\ [stub EXCEPT !.annotation = None] = Stub(stub.id)
        /\ (i <= Len(processed) /\ processed[i][2] # "ok") => stub.annotation = None
        /\ stub.annotation # None =>
            LET a == stub.annotation[1] IN
            /\ i <= Len(processed)
            /\ processed[i] = <<stub.id, "ok">>
            /\ Materialized(stub.id)
            /\ options.download_attachments
            /\ DOMAIN a = {"has_attachments", "attachment_count", "attachments_downloaded",
                           "local_folder"}
            /\ a.attachment_count = Len(Detail(stub.id).attachments)
            /\ a.attachments_downloaded >= 0
            /\ a.attachments_downloaded <= a.attachment_count
            /\ a.has_attachments <=> a.attachment_count > 0
            /\ a.local_folder = IdStr(stub.id) \o <<"_">> \o sanitize_filename(TitleOf(stub.id))

C16_Witness ==
    /\ caller = "download"
    /\ pc = "done"
    /\ Len(all_articles) = 2
    /\ all_articles[1].annotation = None
    /\ processed[1][2] = "write_error"
    /\ all_articles[2].annotation # None
    /\ all_articles[2].annotation[1].attachment_count = 2
    /\ all_articles[2].annotation[1].attachments_downloaded = 1

====
